---- MODULE Spec2Model ----
(***************************************************************************)
(* Model of jupyterchat/chat.py: ThreadItem (one displayed message) and    *)
(* ChatDisplay (the thread list, send_message and the process_message      *)
(* reducer that folds streamed model events into thread items).            *)
(*                                                                         *)
(* Python objects live in a heap: items maps an item id (allocation      *)
(* order) to the item's fields, and every reference to a ThreadItem        *)
(* (thread_items, thread.children, a task's current_message) is an id.     *)
(* Text is a sequence of characters.  asyncio is single threaded: a        *)
(* callback or the code of a task between two awaits is one atomic step.   *)
(***************************************************************************)
EXTENDS Integers, Sequences, FiniteSets, TLC

\* ---------------------------------------------------------------- bounds
MaxTasks == 2        \* clicks on Send (one task each) in Spec
MaxEvents == 3       \* events of all the streams of Spec together
MaxRunLen == 3       \* events in the stream of the single run of SpecRun
MaxTextLen == 2      \* text length in the ThreadItem API specification
MaxAppendLen == 3    \* text length in SpecAppend
MaxFenceLen == 5     \* text length in SpecHtml
MaxParts == 2        \* content parts of an event in SpecParts
MaxPartsLen == 2     \* events in the stream of the single run of SpecParts
MaxItems == 1        \* ThreadItems constructed in the ThreadItem API specification

\* ------------------------------------------------------------ values
None == "<None>"
NoItem == 0

LABEL_COLOURS == [user |-> "green", system |-> "red", agent |-> "blue", tool |-> "orange"]

Get(c, key) == IF key \in DOMAIN c THEN c[key] ELSE None

Truthy(v) == v # None /\ v # ""

\* ------------------------------------------------------------ ThreadItem
RECURSIVE count(_, _)
count(s, p) ==
    IF Len(s) < Len(p) THEN 0
    ELSE IF SubSeq(s, 1, Len(p)) = p
         THEN 1 + count(SubSeq(s, Len(p) + 1, Len(s)), p)
         ELSE count(Tail(s), p)

NL == "LF"          \* the newline character
BT == "BQ"          \* the backtick character

Fence == <<NL, BT, BT, BT>>

\* the text handed to markdown2.markdown
html(sender, text, tool_name) ==
    IF sender = "tool"
    THEN <<"### Tool use for: ", BT, (IF Truthy(tool_name) THEN tool_name ELSE "???"),
           BT, NL, BT, BT, BT, "json", NL>> \o text \o <<NL, BT, BT, BT, NL>>
    ELSE text \o (IF count(text, Fence) % 2 # 0 THEN <<NL, BT, BT, BT, NL>> ELSE <<>>)

\* the LaTeX label: the colour and the sender name it is built from
description(sender) == <<"color", LABEL_COLOURS[sender], sender, ":">>

\* (mutant) the role system is missing from the table
ValidSender_no_system(sender) == sender \in (DOMAIN LABEL_COLOURS) \ {"system"}

ValidSender(sender) == sender \in DOMAIN LABEL_COLOURS

\* ThreadItem.__init__ for a sender that passed the check
ThreadItem(text, sender, tool_name) ==
    [sender |-> sender, text |-> text, tool_name |-> tool_name,
     widget |-> [value |-> html(sender, text, tool_name),
                 description |-> description(sender)]]

\* the sender setter: the item afterwards and the exception raised
set_sender(it, sender) ==
    IF ~ValidSender(sender)
    THEN [it |-> it, raised |-> "ValueError"]
    ELSE [it |-> [it EXCEPT !.sender = sender, !.widget.description = description(sender)],
          raised |-> None]

update_appending(it, text, tool_name) ==
    LET txt == it.text \o text
        tn == IF Truthy(tool_name) THEN tool_name ELSE it.tool_name
    IN [it EXCEPT !.text = txt, !.tool_name = tn,
                  !.widget.value = html(it.sender, txt, tn)]

update(it, text, tool_name) ==
    LET tn == IF Truthy(tool_name) THEN tool_name ELSE it.tool_name
    IN [it EXCEPT !.text = text, !.tool_name = tn,
                  !.widget.value = html(it.sender, text, tn)]

\* (mutant) the new text is put in front of the old text
append_text_prepend(it, text, tool_name) ==
    LET txt == text \o it.text
        tn == IF Truthy(tool_name) THEN tool_name ELSE it.tool_name
    IN [it EXCEPT !.text = txt, !.tool_name = tn,
                  !.widget.value = html(it.sender, txt, tn)]

append_text(it, text, tool_name) ==
    LET txt == it.text \o text
        tn == IF Truthy(tool_name) THEN tool_name ELSE it.tool_name
    IN [it EXCEPT !.text = txt, !.tool_name = tn,
                  !.widget.value = html(it.sender, txt, tn)]

\* ------------------------------------------------------------ ChatDisplay
VARIABLES items,          \* heap: id -> ThreadItem fields
          thread_items,   \* self.thread_items, a list of item ids
          children,       \* self.thread.children, the widgets by item id
          status,         \* self._status
          message_task,   \* self._message_task, a task id or NoItem
          tasks,          \* the tasks created by send_message, in creation order:
                          \*   pc: created, iterating, done or failed
                          \*   message: the item handed to process_message
                          \*   submitted: the text of the input box at the click (history)
                          \*   stream, pos: the events of the stream and how many were handled
                          \*   current_message: the local of process_message
          exc             \* exception raised by the last direct API call, or None

vars == <<items, thread_items, children, status, message_task, tasks, exc>>

\* The display fields a reducer step works on, with the local of the task
\* current_message.
Disp(cm) == [items |-> items, thread_items |-> thread_items,
             children |-> children, current_message |-> cm, raised |-> None]

\* (mutant) the new item is put at the front of the list
push_new_message_front(S, text, sender, tool_name) ==
    IF ~ValidSender(sender)
    THEN [S |-> S, item |-> NoItem, raised |-> "ValueError"]
    ELSE LET id == Len(S.items) + 1
             ti == <<id>> \o S.thread_items
         IN [S |-> [S EXCEPT !.items = Append(@, ThreadItem(text, sender, tool_name)),
                             !.thread_items = ti,
                             !.children = ti],
             item |-> id, raised |-> None]

\* _push_new_message: the new state, the returned item and the exception
\* raised.  The constructor raises before anything is appended.
push_new_message(S, text, sender, tool_name) ==
    IF ~ValidSender(sender)
    THEN [S |-> S, item |-> NoItem, raised |-> "ValueError"]
    ELSE LET id == Len(S.items) + 1
             ti == Append(S.thread_items, id)
         IN [S |-> [S EXCEPT !.items = Append(@, ThreadItem(text, sender, tool_name)),
                             !.thread_items = ti,
                             !.children = ti],
             item |-> id, raised |-> None]

\* (mutant) a new item is opened only when there is no current item
ensure_current_null_only(S, role, tool_name) ==
    IF S.current_message = NoItem
    THEN LET P == push_new_message(S, <<>>, role, tool_name)
         IN [P.S EXCEPT !.current_message = P.item]
    ELSE S

\* if current_message is None or current_message.sender != role: push
ensure_current(S, role, tool_name) ==
    IF S.current_message = NoItem \/ S.items[S.current_message].sender # role
    THEN LET P == push_new_message(S, <<>>, role, tool_name)
         IN [P.S EXCEPT !.current_message = P.item]
    ELSE S

\* (mutant) the name of a tool-call part is applied even without an input
stream_part_names(S, c) ==
    IF "type" \in DOMAIN c /\ c.type = "text"
    THEN LET S1 == ensure_current(S, "agent", None)
         IN IF "text" \in DOMAIN c
            THEN [S1 EXCEPT !.items[S1.current_message] = append_text(@, c.text, None)]
            ELSE [S1 EXCEPT !.raised = "KeyError"]
    ELSE IF "type" \in DOMAIN c /\ c.type = "tool_use"
    THEN LET S1 == ensure_current(S, "tool", Get(c, "name"))
         IN [S1 EXCEPT !.items[S1.current_message] =
                           append_text(@, IF "input" \in DOMAIN c THEN c.input ELSE <<>>,
                                       Get(c, "name"))]
    ELSE S

\* one content part of an on_chat_model_stream chunk; c['text'] is read
\* after the push and raises KeyError for a text part without that key
stream_part(S, c) ==
    IF "type" \in DOMAIN c /\ c.type = "text"
    THEN LET S1 == ensure_current(S, "agent", None)
         IN IF "text" \in DOMAIN c
            THEN [S1 EXCEPT !.items[S1.current_message] = append_text(@, c.text, None)]
            ELSE [S1 EXCEPT !.raised = "KeyError"]
    ELSE IF "type" \in DOMAIN c /\ c.type = "tool_use"
    THEN LET S1 == ensure_current(S, "tool", Get(c, "name"))
         IN IF "input" \in DOMAIN c
            THEN [S1 EXCEPT !.items[S1.current_message] =
                                append_text(@, c.input, Get(c, "name"))]
            ELSE S1
    ELSE S

\* (mutant) only the first part of the content is handled
stream_content_first_only(S, content) ==
    IF content = <<>> \/ S.raised # None THEN S
    ELSE stream_part(S, Head(content))

RECURSIVE stream_content(_, _)
stream_content(S, content) ==
    IF content = <<>> \/ S.raised # None THEN S
    ELSE stream_content(stream_part(S, Head(content)), Tail(content))

\* (mutant) the first part of the content is consulted, not the last
end_content_first(S, content) ==
    IF content = <<>> THEN [S EXCEPT !.raised = "IndexError"]
    ELSE
    LET c == content[1]
    IN IF "type" \in DOMAIN c /\ c.type = "text"
       THEN IF "text" \notin DOMAIN c THEN [S EXCEPT !.raised = "KeyError"]
            ELSE
            LET S1 == ensure_current(S, "agent", None)
            IN [S1 EXCEPT !.items[S1.current_message] = update(@, c.text, None)]
       ELSE IF "type" \in DOMAIN c /\ c.type = "tool_use"
       THEN IF "input" \in DOMAIN c
            THEN LET S1 == ensure_current(S, "tool", Get(c, "name"))
                 IN [S1 EXCEPT !.items[S1.current_message] =
                                   update(@, c.input, Get(c, "name"))]
            ELSE S
       ELSE S

\* on_chat_model_end; content[-1] raises IndexError for an empty list and
\* c['text'] is read before the push
end_content(S, content) ==
    IF content = <<>> THEN [S EXCEPT !.raised = "IndexError"]
    ELSE
    LET c == content[Len(content)]
    IN IF "type" \in DOMAIN c /\ c.type = "text"
       THEN IF "text" \notin DOMAIN c THEN [S EXCEPT !.raised = "KeyError"]
            ELSE
            LET S1 == ensure_current(S, "agent", None)
            IN [S1 EXCEPT !.items[S1.current_message] = update(@, c.text, None)]
       ELSE IF "type" \in DOMAIN c /\ c.type = "tool_use"
       THEN IF "input" \in DOMAIN c
            THEN LET S1 == ensure_current(S, "tool", Get(c, "name"))
                 IN [S1 EXCEPT !.items[S1.current_message] =
                                   update(@, c.input, Get(c, "name"))]
            ELSE S
       ELSE S

\* (mutant) an event of another kind resets current_message too
handle_event_other_resets(S, event) ==
    IF event.event = "on_chat_model_stream" THEN stream_content(S, event.content)
    ELSE IF event.event = "on_chat_model_end" THEN end_content(S, event.content)
    ELSE [S EXCEPT !.current_message = NoItem]

\* (mutant) on_chat_model_start does not reset current_message
handle_event_no_reset(S, event) ==
    IF event.event = "on_chat_model_stream" THEN stream_content(S, event.content)
    ELSE IF event.event = "on_chat_model_end" THEN end_content(S, event.content)
    ELSE S

\* the body of the async-for loop for one event
handle_event(S, event) ==
    IF event.event = "on_chat_model_start" THEN [S EXCEPT !.current_message = NoItem]
    ELSE IF event.event = "on_chat_model_stream" THEN stream_content(S, event.content)
    ELSE IF event.event = "on_chat_model_end" THEN end_content(S, event.content)
    ELSE S

\* ------------------------------------------------------------ events
TextPart(t) == [type |-> "text", text |-> t]
ToolPart(n, i) == [type |-> "tool_use", name |-> n, input |-> i]
ToolPartNoInput(n) == [type |-> "tool_use", name |-> n]
ToolPartNoName(i) == [type |-> "tool_use", input |-> i]
ToolPartBare == [type |-> "tool_use"]
OtherPart == [index |-> 0]

TurnStart == [event |-> "on_chat_model_start"]
Token(content) == [event |-> "on_chat_model_stream", content |-> content]
TurnEnd(content) == [event |-> "on_chat_model_end", content |-> content]
OtherEvent == [event |-> "on_chain_stream"]

Fragments == {<<"a">>, <<"b">>}
UserTexts == {<<"h">>, <<"i">>}

CoreEvents == {TurnStart, Token(<<TextPart(<<"a">>)>>),
               Token(<<ToolPart("f", <<"x">>)>>), TurnEnd(<<TextPart(<<"b">>)>>)}

RunParts == {TextPart(t) : t \in Fragments}
            \cup {ToolPart("f", <<"x">>), ToolPartNoInput("f"),
                  ToolPartNoName(<<"x">>), ToolPartBare, OtherPart}

RunEvents == {TurnStart, OtherEvent}
             \cup {Token(<<p>>) : p \in RunParts}
             \cup {TurnEnd(<<p>>) : p \in RunParts}

\* the stream raising an exception where an event is awaited
StreamError == [raise |-> "Exception"]
\* a content part of type text that lacks the key text
BadTextPart == [type |-> "text"]

StreamsUpTo(E, n) == UNION {[1..m -> E] : m \in 0..n}

\* ------------------------------------------------------------ actions
Init ==
    /\ items = <<>>
    /\ thread_items = <<>>
    /\ children = <<>>
    /\ status = <<"Idle">>
    /\ message_task = NoItem
    /\ tasks = <<>>
    /\ exc = None

\* (mutant) the click cancels the tasks that have not finished
send_message_cancelling(message) ==
    LET P == push_new_message(Disp(NoItem), message, "user", None)
        k == Len(tasks) + 1
        old == [j \in DOMAIN tasks |->
                   IF tasks[j].pc = "done" THEN tasks[j]
                   ELSE [tasks[j] EXCEPT !.pc = "cancelled"]]
    IN /\ items' = P.S.items
       /\ thread_items' = P.S.thread_items
       /\ children' = P.S.children
       /\ tasks' = Append(old, [pc |-> "created", message |-> P.item,
                                submitted |-> message, stream |-> <<>>,
                                pos |-> 0, current_message |-> NoItem])
       /\ message_task' = k
       /\ status' = <<"Created task: ", k>>
       /\ exc' = None

\* send_message: the click handler, with the input box holding message
send_message(message) ==
    LET P == push_new_message(Disp(NoItem), message, "user", None)
        k == Len(tasks) + 1
    IN /\ items' = P.S.items
       /\ thread_items' = P.S.thread_items
       /\ children' = P.S.children
       /\ tasks' = Append(tasks, [pc |-> "created", message |-> P.item,
                                  submitted |-> message, stream |-> <<>>,
                                  pos |-> 0, current_message |-> NoItem])
       /\ message_task' = k
       /\ status' = <<"Created task: ", k>>
       /\ exc' = None

\* process_message up to its first await: task k opens stream s
process_message_start(k, s) ==
    /\ tasks[k].pc = "created"
    /\ tasks' = [tasks EXCEPT ![k].pc = "iterating", ![k].stream = s,
                              ![k].current_message = NoItem]
    /\ status' = <<"Stream handler entered: ", k>>
    /\ UNCHANGED <<items, thread_items, children, message_task, exc>>

\* (mutant) current_message is a field of the display, shared by the tasks
process_message_event_shared(k) ==
    /\ tasks[k].pc = "iterating"
    /\ tasks[k].pos < Len(tasks[k].stream)
    /\ LET event == tasks[k].stream[tasks[k].pos + 1]
           S == handle_event(Disp(tasks[k].current_message), event)
       IN /\ items' = S.items
          /\ thread_items' = S.thread_items
          /\ children' = S.children
          /\ status' = <<event.event>>
          /\ tasks' = [j \in DOMAIN tasks |->
                          IF j = k
                          THEN [tasks[j] EXCEPT !.pos = @ + 1,
                                                !.current_message = S.current_message]
                          ELSE IF tasks[j].pc = "iterating"
                               THEN [tasks[j] EXCEPT !.current_message = S.current_message]
                               ELSE tasks[j]]
    /\ UNCHANGED <<message_task, exc>>

\* task k receives the next event of its stream and handles it; an
\* exception raised by the handler ends the task
process_message_event(k) ==
    /\ tasks[k].pc = "iterating"
    /\ tasks[k].pos < Len(tasks[k].stream)
    /\ "event" \in DOMAIN tasks[k].stream[tasks[k].pos + 1]
    /\ LET event == tasks[k].stream[tasks[k].pos + 1]
           S == handle_event(Disp(tasks[k].current_message), event)
       IN /\ items' = S.items
          /\ thread_items' = S.thread_items
          /\ children' = S.children
          /\ status' = <<event.event>>
          /\ tasks' = [tasks EXCEPT ![k].pos = @ + 1,
                                    ![k].current_message = S.current_message,
                                    ![k].pc = IF S.raised = None THEN @ ELSE "failed"]
    /\ UNCHANGED <<message_task, exc>>

\* the stream of task k raises instead of delivering an event: the
\* exception leaves the loop and ends the task
process_message_raise(k) ==
    /\ tasks[k].pc = "iterating"
    /\ tasks[k].pos < Len(tasks[k].stream)
    /\ "event" \notin DOMAIN tasks[k].stream[tasks[k].pos + 1]
    /\ tasks' = [tasks EXCEPT ![k].pos = @ + 1, ![k].pc = "failed"]
    /\ UNCHANGED <<items, thread_items, children, status, message_task, exc>>

\* the stream of task k is exhausted: the loop and the task end
process_message_done(k) ==
    /\ tasks[k].pc = "iterating"
    /\ tasks[k].pos = Len(tasks[k].stream)
    /\ tasks' = [tasks EXCEPT ![k].pc = "done"]
    /\ UNCHANGED <<items, thread_items, children, status, message_task, exc>>

TaskStep(k) == process_message_event(k) \/ process_message_done(k)

RECURSIVE Queued(_)
Queued(ts) == IF ts = <<>> THEN 0 ELSE Len(Head(ts).stream) + Queued(Tail(ts))

\* Spec: up to MaxTasks clicks, overlapping streams over CoreEvents
Click == Len(tasks) < MaxTasks /\ \E m \in UserTexts : send_message(m)
Start == \E k \in DOMAIN tasks :
             /\ tasks[k].pc = "created"
             /\ \E s \in StreamsUpTo(CoreEvents, MaxEvents - Queued(tasks)) :
                    process_message_start(k, s)
Event == \E k \in DOMAIN tasks : process_message_event(k)
Done == \E k \in DOMAIN tasks : process_message_done(k)

Next == Click \/ Start \/ Event \/ Done

Spec == Init /\ [][Next]_vars

\* SpecRun: one click and one run of process_message over RunEvents
ClickRun == tasks = <<>> /\ \E m \in UserTexts : send_message(m)
StartRun == \E k \in DOMAIN tasks :
                /\ tasks[k].pc = "created"
                /\ \E s \in StreamsUpTo(RunEvents, MaxRunLen) : process_message_start(k, s)

NextRun == ClickRun \/ StartRun \/ Event \/ Done

SpecRun == Init /\ [][NextRun]_vars

\* SpecParts: one click and one run over events that carry up to MaxParts
\* content parts
PartsParts == {TextPart(t) : t \in Fragments}
              \cup {ToolPart("f", <<"x">>), ToolPartNoInput("f"), OtherPart}
PartsContents == StreamsUpTo(PartsParts, MaxParts) \ {<<>>}
PartsEvents == {TurnStart}
               \cup {Token(c) : c \in PartsContents}
               \cup {TurnEnd(c) : c \in PartsContents}

StartParts == \E k \in DOMAIN tasks :
                  /\ tasks[k].pc = "created"
                  /\ \E s \in StreamsUpTo(PartsEvents, MaxPartsLen) :
                         process_message_start(k, s)

NextParts == ClickRun \/ StartParts \/ Event \/ Done

SpecParts == Init /\ [][NextParts]_vars

\* SpecFail: clicks and streams that fail: the stream raises, a turn-end
\* event has an empty content list, or a text part has no text
FailEvents == {Token(<<TextPart(<<"a">>)>>), TurnEnd(<<TextPart(<<"b">>)>>),
               StreamError, TurnEnd(<<>>), Token(<<BadTextPart>>)}

StartFail == \E k \in DOMAIN tasks :
                 /\ tasks[k].pc = "created"
                 /\ \E s \in StreamsUpTo(FailEvents, MaxEvents - Queued(tasks)) :
                        process_message_start(k, s)
Raise == \E k \in DOMAIN tasks : process_message_raise(k)

NextFail == Click \/ StartFail \/ Event \/ Raise \/ Done

SpecFail == Init /\ [][NextFail]_vars

\* FairSpec: overlapping streams over FairEvents, with the event loop
\* running every task that can run
FairEvents == {TurnStart, Token(<<TextPart(<<"a">>)>>)}

StartFair == \E k \in DOMAIN tasks :
                 /\ tasks[k].pc = "created"
                 /\ \E s \in StreamsUpTo(FairEvents, MaxEvents - Queued(tasks)) :
                        process_message_start(k, s)

TaskRun(k) ==
    /\ k \in DOMAIN tasks
    /\ \/ /\ tasks[k].pc = "created"
          /\ \E s \in StreamsUpTo(FairEvents, MaxEvents - Queued(tasks)) :
                 process_message_start(k, s)
       \/ TaskStep(k)

NextFair == Click \/ StartFair \/ Event \/ Done

FairSpec == Init /\ [][NextFair]_vars /\ \A k \in 1..MaxTasks : WF_vars(TaskRun(k))

\* SpecItem: direct calls of the ThreadItem interface and of _push_new_message
SenderInputs == (DOMAIN LABEL_COLOURS) \cup {"assistant", ""}
ItemTexts == {<<>>, <<"a">>}
ToolNameInputs == {None, "", "f"}

\* ThreadItem(text, sender, tool_name), the object kept by the caller
Construct(text, sender, tool_name) ==
    /\ Len(items) < MaxItems \/ ~ValidSender(sender)
    /\ IF ValidSender(sender)
       THEN /\ items' = Append(items, ThreadItem(text, sender, tool_name))
            /\ exc' = None
       ELSE /\ items' = items
            /\ exc' = "ValueError"
    /\ UNCHANGED <<thread_items, children, status, message_task, tasks>>

\* item.sender = sender
SetSender(i, sender) ==
    /\ items' = [items EXCEPT ![i] = set_sender(@, sender).it]
    /\ exc' = set_sender(items[i], sender).raised
    /\ UNCHANGED <<thread_items, children, status, message_task, tasks>>

\* item.update(text, tool_name)
Update(i, text, tool_name) ==
    /\ items' = [items EXCEPT ![i] = update(@, text, tool_name)]
    /\ exc' = None
    /\ UNCHANGED <<thread_items, children, status, message_task, tasks>>

\* item.append_text(text, tool_name)
AppendText(i, text, tool_name) ==
    /\ items' = [items EXCEPT ![i] = append_text(@, text, tool_name)]
    /\ exc' = None
    /\ UNCHANGED <<thread_items, children, status, message_task, tasks>>

\* display._push_new_message(text, sender, tool_name)
Push(text, sender, tool_name) ==
    /\ Len(items) < MaxItems \/ ~ValidSender(sender)
    /\ LET P == push_new_message(Disp(NoItem), text, sender, tool_name)
       IN /\ items' = P.S.items
          /\ thread_items' = P.S.thread_items
          /\ children' = P.S.children
          /\ exc' = P.raised
    /\ UNCHANGED <<status, message_task, tasks>>

CallConstruct == \E t \in ItemTexts, s \in SenderInputs, n \in ToolNameInputs :
                     Construct(t, s, n)
CallSetSender == \E i \in DOMAIN items, s \in SenderInputs : SetSender(i, s)
CallUpdate == \E i \in DOMAIN items, t \in ItemTexts, n \in ToolNameInputs :
                  Update(i, t, n)
CallAppendText == \E i \in DOMAIN items, t \in ItemTexts, n \in ToolNameInputs :
                      Len(items[i].text) + Len(t) <= MaxTextLen /\ AppendText(i, t, n)
CallPush == \E t \in ItemTexts, s \in SenderInputs, n \in ToolNameInputs : Push(t, s, n)

NextItem == CallConstruct \/ CallSetSender \/ CallUpdate \/ CallAppendText \/ CallPush

SpecItem == Init /\ [][NextItem]_vars

\* SpecAppend: items of every role, extended by append_text with no tool name
AppendTexts == {<<>>, <<"a">>, <<"b">>, <<"a", "b">>}

ConstructAppend == \E t \in AppendTexts, s \in DOMAIN LABEL_COLOURS, n \in {None, "f"} :
                       Construct(t, s, n)
CallAppend == \E i \in DOMAIN items, t \in AppendTexts :
                  Len(items[i].text) + Len(t) <= MaxAppendLen /\ AppendText(i, t, None)

NextAppend == ConstructAppend \/ CallAppend

SpecAppend == Init /\ [][NextAppend]_vars

\* SpecHtml: items that are not tool items, constructed with texts made of
\* newlines, backticks and a letter, and rendered by the constructor
FenceTexts == StreamsUpTo({NL, BT, "a"}, MaxFenceLen)

ConstructHtml == \E t \in FenceTexts, s \in {"agent", "user"} : Construct(t, s, None)

NextHtml == ConstructHtml

SpecHtml == Init /\ [][NextHtml]_vars

\* ------------------------------------------------------------ properties
IsToken(e) == e.event = "on_chat_model_stream"
IsTurnEnd(e) == e.event = "on_chat_model_end"
IsText(c) == "type" \in DOMAIN c /\ c.type = "text"
IsToolUse(c) == "type" \in DOMAIN c /\ c.type = "tool_use"
LastPart(e) == e.content[Len(e.content)]
IsTextToken(e) == IsToken(e) /\ Len(e.content) = 1 /\ IsText(e.content[1])
IsTextEnd(e) == IsTurnEnd(e) /\ IsText(LastPart(e))

\* the event task k handled last (pos > 0)
LastEvent(k) == tasks[k].stream[tasks[k].pos]
\* in a step, task k handles the event it finds next in its stream
Handles(k) == /\ k \in DOMAIN tasks
              /\ tasks[k].pc = "iterating"
              /\ tasks'[k].pos = tasks[k].pos + 1
NextEvent(k) == tasks[k].stream[tasks[k].pos + 1]
Finished(k) == tasks[k].pc = "done" /\ tasks[k].pos = Len(tasks[k].stream)

\* C1: right after a turn-end event whose last part is a text part with text
\* F, the current item of the run is an agent item whose text is exactly F,
\* whatever partial tokens were accumulated before.
C1_TurnEndOverwrite ==
    \A k \in DOMAIN tasks :
        (tasks[k].pos > 0 /\ IsTextEnd(LastEvent(k))) =>
            /\ tasks[k].current_message # NoItem
            /\ items[tasks[k].current_message].sender = "agent"
            /\ items[tasks[k].current_message].text = LastPart(LastEvent(k)).text

\* a turn-end text F has replaced an accumulated partial text that differs from F
C1_Witness ==
    \E k \in DOMAIN tasks :
        /\ tasks[k].pos > 1
        /\ IsTextEnd(LastEvent(k))
        /\ IsTextToken(tasks[k].stream[tasks[k].pos - 1])
        /\ tasks[k].stream[tasks[k].pos - 1].content[1].text # LastPart(LastEvent(k)).text
        /\ items[tasks[k].current_message].text = LastPart(LastEvent(k)).text

\* a stream [turn-start, text token x n (n >= 1), turn-end with final text]
IsSingleTurn(s) ==
    /\ Len(s) >= 3
    /\ s[1] = TurnStart
    /\ \A i \in 2..(Len(s) - 1) : IsTextToken(s[i])
    /\ IsTurnEnd(s[Len(s)]) /\ Len(s[Len(s)].content) = 1 /\ IsText(s[Len(s)].content[1])

\* C2: after one submit(t) and a finished stream [turn-start, text tokens,
\* turn-end(F)] the thread is exactly a user item with text t followed by one
\* agent item with text F.
C2_EndToEnd ==
    (Len(tasks) = 1 /\ Finished(1) /\ IsSingleTurn(tasks[1].stream)) =>
        /\ Len(thread_items) = 2
        /\ items[thread_items[1]].sender = "user"
        /\ items[thread_items[1]].text = tasks[1].submitted
        /\ items[thread_items[2]].sender = "agent"
        /\ items[thread_items[2]].text = LastPart(tasks[1].stream[Len(tasks[1].stream)]).text

\* the single turn has run to its end, with a token text other than the final text
C2_Witness ==
    /\ Len(tasks) = 1 /\ Finished(1) /\ IsSingleTurn(tasks[1].stream)
    /\ tasks[1].stream[2].content[1].text # items[thread_items[2]].text
    /\ Len(thread_items) = 2

PartRole(c) == IF IsText(c) THEN "agent" ELSE "tool"

\* C3: a text or tool-call part of a token event appends a new item (of the
\* role of the part, made the current item) exactly when the current item of
\* the run is null or has another sender; otherwise no item is appended and
\* the current item stays.
C3_RoleSwitch ==
    [][\A k \in DOMAIN tasks :
          (/\ Handles(k)
           /\ IsToken(NextEvent(k))
           /\ Len(NextEvent(k).content) = 1
           /\ (IsText(NextEvent(k).content[1]) \/ IsToolUse(NextEvent(k).content[1])))
          => LET role == PartRole(NextEvent(k).content[1])
                 cm == tasks[k].current_message
             IN IF cm = NoItem \/ items[cm].sender # role
                THEN /\ Len(items') = Len(items) + 1
                     /\ thread_items' = Append(thread_items, Len(items'))
                     /\ items'[Len(items')].sender = role
                     /\ tasks'[k].current_message = Len(items')
                ELSE /\ Len(items') = Len(items)
                     /\ thread_items' = thread_items
                     /\ tasks'[k].current_message = cm]_vars

\* [token(text part), token(tool-call part)] has produced an agent item
\* followed by a tool item
C3_Witness ==
    \E k \in DOMAIN tasks :
        /\ tasks[k].pos = 2
        /\ IsTextToken(tasks[k].stream[1])
        /\ IsToken(tasks[k].stream[2]) /\ IsToolUse(tasks[k].stream[2].content[1])
        /\ Len(thread_items) = 3
        /\ items[thread_items[2]].sender = "agent"
        /\ items[thread_items[3]].sender = "tool"

\* C4: a turn-start event leaves the current item of the run null, and a
\* text part handled while it is null opens a fresh agent item holding just
\* that text and changes no item that existed before.
C4_TurnStartReset ==
    [][\A k \in DOMAIN tasks :
          /\ (Handles(k) /\ NextEvent(k) = TurnStart)
                => tasks'[k].current_message = NoItem
          /\ (Handles(k) /\ tasks[k].current_message = NoItem /\ IsTextToken(NextEvent(k)))
                => /\ Len(items') = Len(items) + 1
                   /\ thread_items' = Append(thread_items, Len(items'))
                   /\ items'[Len(items')].sender = "agent"
                   /\ items'[Len(items')].text = NextEvent(k).content[1].text
                   /\ \A i \in DOMAIN items : items'[i] = items[i]]_vars

\* [token(text), turn-start, token(text)] has produced two separate agent
\* items, each holding its own token
C4_Witness ==
    \E k \in DOMAIN tasks :
        /\ tasks[k].pos = 3
        /\ IsTextToken(tasks[k].stream[1])
        /\ tasks[k].stream[2] = TurnStart
        /\ IsTextToken(tasks[k].stream[3])
        /\ Len(thread_items) = 3
        /\ items[thread_items[2]].sender = "agent"
        /\ items[thread_items[2]].text = tasks[k].stream[1].content[1].text
        /\ items[thread_items[3]].sender = "agent"
        /\ items[thread_items[3]].text = tasks[k].stream[3].content[1].text

C6_OnlyLastMutated ==
    [][\A i \in DOMAIN items :
          (items'[i].text # items[i].text \/ items'[i].tool_name # items[i].tool_name)
          => (thread_items # <<>> /\ thread_items[Len(thread_items)] = i)]_vars

\* C7: a click appends exactly one user item holding the submitted text and
\* creates exactly one task, leaving every earlier task as it is; and every
\* task created eventually handles all the events of its stream and ends.
C7_SubmitNeverCancels ==
    /\ [][Len(tasks') > Len(tasks) =>
             /\ Len(tasks') = Len(tasks) + 1
             /\ SubSeq(tasks', 1, Len(tasks)) = tasks
             /\ tasks'[Len(tasks')].pc = "created"
             /\ message_task' = Len(tasks')
             /\ Len(items') = Len(items) + 1
             /\ thread_items' = Append(thread_items, Len(items'))
             /\ tasks'[Len(tasks')].message = Len(items')
             /\ items'[Len(items')].sender = "user"
             /\ items'[Len(items')].text = tasks'[Len(tasks')].submitted
             /\ \A i \in DOMAIN items : items'[i] = items[i]]_vars
    /\ \A k \in 1..MaxTasks : (Len(tasks) >= k) ~> (Len(tasks) >= k /\ Finished(k))

\* a task created by an earlier click has ended although a later click came
\* while it was still handling its stream
C7_Witness ==
    \E k \in DOMAIN tasks :
        /\ Finished(k) /\ Len(tasks[k].stream) >= 2
        /\ k < Len(tasks)
        /\ \E i \in DOMAIN thread_items :
              /\ thread_items[i] = tasks[k].current_message
              /\ \E j \in 1..(i - 1) : thread_items[j] = tasks[k + 1].message

\* C8 as stated: current_message is one state shared by the tasks, so after a
\* task writes it every other running task holds the value written.
C8_SharedCurrent ==
    [][\A k, j \in DOMAIN tasks :
          (/\ k # j /\ Handles(k) /\ tasks[j].pc = "iterating"
           /\ tasks'[k].current_message # tasks[k].current_message)
          => tasks'[j].current_message = tasks'[k].current_message]_vars

\* C8 as amended: current_message is local to each run: a step of one task
\* leaves the current_message of every other task as it was, and two tasks
\* never hold the same item as current.
C8_LocalCurrent ==
    [][/\ \A k, j \in DOMAIN tasks :
             (k # j /\ Handles(k)) => tasks'[j] = tasks[j]
       /\ \A k, j \in DOMAIN tasks' :
             (k # j /\ tasks'[k].current_message # NoItem)
             => tasks'[j].current_message # tasks'[k].current_message]_vars

\* two overlapping tasks have each written their current_message, one by a
\* reset and one by pointing it to a new item, and each holds its own value
C8_Witness ==
    \E k, j \in DOMAIN tasks :
        /\ k # j
        /\ tasks[k].pc = "iterating" /\ tasks[j].pc = "iterating"
        /\ tasks[k].pos > 0 /\ tasks[j].pos > 0
        /\ IsToken(LastEvent(k)) /\ tasks[k].current_message # NoItem
        /\ LastEvent(j) = TurnStart /\ tasks[j].current_message = NoItem

\* C9: at most one process_message task is between its start and its end.
C9_AtMostOneActive ==
    Cardinality({k \in DOMAIN tasks : tasks[k].pc = "iterating"}) <= 1

Roles == {"user", "system", "agent", "tool"}

\* C10: constructing an item, setting its sender and pushing an item succeed
\* for the four roles and raise for every other sender; a failed call
\* changes neither the item (sender, label) nor the thread list.
C10_SenderValidation ==
    [][\A s \in SenderInputs :
          /\ \A t \in ItemTexts, n \in ToolNameInputs :
                Construct(t, s, n) =>
                    IF s \in Roles
                    THEN /\ exc' = None
                         /\ Len(items') = Len(items) + 1
                         /\ items'[Len(items')].sender = s
                    ELSE /\ exc' = "ValueError"
                         /\ items' = items
          /\ \A i \in DOMAIN items :
                SetSender(i, s) =>
                    IF s \in Roles
                    THEN /\ exc' = None
                         /\ items'[i].sender = s
                         /\ items'[i].widget.description = description(s)
                    ELSE /\ exc' = "ValueError"
                         /\ items'[i].sender = items[i].sender
                         /\ items'[i].widget.description = items[i].widget.description
                         /\ items' = items
          /\ \A t \in ItemTexts, n \in ToolNameInputs :
                Push(t, s, n) =>
                    IF s \in Roles
                    THEN /\ exc' = None
                         /\ Len(items') = Len(items) + 1
                         /\ items'[Len(items')].sender = s
                         /\ thread_items' = Append(thread_items, Len(items'))
                    ELSE /\ exc' = "ValueError"
                         /\ thread_items' = thread_items
                         /\ children' = children
                         /\ items' = items]_vars

\* a call with an unknown sender has raised on a display that holds an item
\* of the role system
C10_Witness ==
    /\ exc = "ValueError"
    /\ thread_items # <<>>
    /\ \E i \in DOMAIN items : items[i].sender = "system"

Failed(k) == tasks[k].pc = "failed"

\* C11: the step in which an exception ends a task (raised by the stream or
\* by the handling of an event) changes no item and not the thread list, and
\* a failed task handles no further event.
C11_FailureNoUpdate ==
    [][\A k \in DOMAIN tasks :
          /\ (tasks[k].pc = "iterating" /\ Failed(k)')
                => /\ items' = items
                   /\ thread_items' = thread_items
                   /\ children' = children
          /\ Failed(k) => tasks'[k] = tasks[k]]_vars

\* C12: appending a text in one call leaves the item (text, tool name and
\* rendering) exactly as appending any prefix of it and then the rest.
C12_AppendAssociative ==
    [][\A i \in DOMAIN items, t \in AppendTexts :
          AppendText(i, t, None) =>
              \A n \in 0..Len(t) :
                  append_text(append_text(items[i], SubSeq(t, 1, n), None),
                              SubSeq(t, n + 1, Len(t)), None) = items'[i]]_vars

\* an item holds a text longer than any text it can be constructed with: it
\* was extended by append_text, by a text of two characters
C12_Witness ==
    \E i \in DOMAIN items :
        /\ Len(items[i].text) = 3
        /\ SubSeq(items[i].text, 2, 3) = <<"a", "b">>
        /\ \A t \in AppendTexts : Len(t) < 3

Marker == <<BT, BT, BT>>
ClosingFence == <<NL, BT, BT, BT, NL>>

\* C13: for an item that is not a tool item the text handed to the markdown
\* conversion is the text of the item, followed by a closing fence exactly
\* when the text holds an odd number of triple-backtick markers, wherever
\* they are; the stored text stays what it was constructed with.
C13_FenceRepair ==
    \A i \in DOMAIN items :
        items[i].sender # "tool" =>
            items[i].widget.value =
                items[i].text \o (IF count(items[i].text, Marker) % 2 = 1
                                  THEN ClosingFence ELSE <<>>)

KnownKinds == {"on_chat_model_start", "on_chat_model_stream", "on_chat_model_end"}

\* C14: handling an event of a kind other than turn-start, token and
\* turn-end changes the status (to the kind of the event) and nothing else:
\* not the thread list, no item, not the current item of the run.
C14_OtherEventFrame ==
    [][\A k \in DOMAIN tasks :
          (Handles(k) /\ NextEvent(k).event \notin KnownKinds)
          => /\ items' = items
             /\ thread_items' = thread_items
             /\ children' = children
             /\ tasks'[k].current_message = tasks[k].current_message
             /\ tasks'[k].pc = tasks[k].pc
             /\ message_task' = message_task
             /\ status' = <<NextEvent(k).event>>]_vars

\* an event of another kind has been handled while the run had a current item
C14_Witness ==
    \E k \in DOMAIN tasks :
        /\ tasks[k].pos > 1
        /\ LastEvent(k).event \notin KnownKinds
        /\ tasks[k].current_message # NoItem
        /\ status = <<LastEvent(k).event>>

\* C15: a turn-end event with content parts p1..pn (n >= 1) leaves the
\* thread, the items and the current item of the run exactly as a turn-end
\* event with the content [pn] alone would, and appends at most one item.
C15_LastPartOnly ==
    [][\A k \in DOMAIN tasks :
          (Handles(k) /\ IsTurnEnd(NextEvent(k)) /\ Len(NextEvent(k).content) >= 1)
          => LET S == handle_event(Disp(tasks[k].current_message),
                                   TurnEnd(<<LastPart(NextEvent(k))>>))
             IN /\ items' = S.items
                /\ thread_items' = S.thread_items
                /\ children' = S.children
                /\ tasks'[k].current_message = S.current_message
                /\ Len(items') <= Len(items) + 1]_vars

\* a turn-end event whose first part is a tool call with input and whose
\* last part is a text has been handled: there is no tool item, and the
\* current item holds the text
C15_Witness ==
    \E k \in DOMAIN tasks :
        /\ tasks[k].pos > 0
        /\ IsTurnEnd(LastEvent(k))
        /\ Len(LastEvent(k).content) >= 2
        /\ IsToolUse(LastEvent(k).content[1]) /\ "input" \in DOMAIN LastEvent(k).content[1]
        /\ IsText(LastPart(LastEvent(k)))
        /\ \A i \in DOMAIN items : items[i].sender # "tool"
        /\ items[tasks[k].current_message].text = LastPart(LastEvent(k)).text

\* The accumulation the claim describes, over the events handled so far:
\* the role of the open item (none after a turn-start) and the fragments
\* received since it was opened, in order.
PartFragment(c) == IF IsText(c) THEN c.text
                   ELSE IF "input" \in DOMAIN c THEN c.input ELSE <<>>

WalkPart(w, c) ==
    IF IsText(c) \/ IsToolUse(c)
    THEN IF w.role = PartRole(c)
         THEN [role |-> w.role, acc |-> w.acc \o PartFragment(c)]
         ELSE [role |-> PartRole(c), acc |-> PartFragment(c)]
    ELSE w

RECURSIVE WalkParts(_, _)
WalkParts(w, content) ==
    IF content = <<>> THEN w ELSE WalkParts(WalkPart(w, Head(content)), Tail(content))

RECURSIVE WalkEvents(_, _)
WalkEvents(w, events) ==
    IF events = <<>> THEN w
    ELSE WalkEvents(IF Head(events) = TurnStart THEN [role |-> "none", acc |-> <<>>]
                    ELSE IF IsToken(Head(events)) THEN WalkParts(w, Head(events).content)
                    ELSE w,
                    Tail(events))

Handled(k) == SubSeq(tasks[k].stream, 1, tasks[k].pos)
NoTurnEnd(events) == \A n \in DOMAIN events : ~IsTurnEnd(events[n])

\* C16: before any turn-end, the current item of a run is the item of the
\* role of the last text or tool-call part, and its text is the in-order
\* concatenation of every fragment handled since the item was opened, the
\* fragment that opened it included; all the parts of an event count.
C16_AccumulationComplete ==
    \A k \in DOMAIN tasks :
        (tasks[k].pc # "created" /\ NoTurnEnd(Handled(k)))
        => LET w == WalkEvents([role |-> "none", acc |-> <<>>], Handled(k))
           IN IF w.role = "none"
              THEN tasks[k].current_message = NoItem
              ELSE /\ tasks[k].current_message # NoItem
                   /\ items[tasks[k].current_message].sender = w.role
                   /\ items[tasks[k].current_message].text = w.acc

\* a token event with two text parts has extended the agent item opened by
\* an earlier token event: the item holds three fragments
C16_Witness ==
    \E k \in DOMAIN tasks :
        /\ tasks[k].pos = 2
        /\ NoTurnEnd(Handled(k))
        /\ IsTextToken(tasks[k].stream[1])
        /\ IsToken(LastEvent(k))
        /\ Len(LastEvent(k).content) = 2
        /\ IsText(LastEvent(k).content[1]) /\ IsText(LastEvent(k).content[2])
        /\ tasks[k].current_message # NoItem
        /\ items[tasks[k].current_message].text =
              tasks[k].stream[1].content[1].text \o LastEvent(k).content[1].text
                                                \o LastEvent(k).content[2].text

\* C17: an item with a tool name is a tool item.
C17_ToolNameOnlyOnTool ==
    \A i \in DOMAIN items : items[i].tool_name # None => items[i].sender = "tool"

NoInput(c) == IsToolUse(c) /\ "input" \notin DOMAIN c

\* C18: a turn-end event whose last part is a tool call without input
\* appends no item and changes no item and not the current item; a token
\* event with one tool-call part without input, handled while the current
\* item is a tool item, changes no item (text, tool name) either.
C18_NoInputFrame ==
    [][\A k \in DOMAIN tasks :
          /\ (Handles(k) /\ IsTurnEnd(NextEvent(k)) /\ NoInput(LastPart(NextEvent(k))))
                => /\ items' = items
                   /\ thread_items' = thread_items
                   /\ tasks'[k].current_message = tasks[k].current_message
          /\ (/\ Handles(k) /\ IsToken(NextEvent(k))
              /\ Len(NextEvent(k).content) = 1 /\ NoInput(NextEvent(k).content[1])
              /\ tasks[k].current_message # NoItem
              /\ items[tasks[k].current_message].sender = "tool")
                => /\ items' = items
                   /\ thread_items' = thread_items
                   /\ tasks'[k].current_message = tasks[k].current_message]_vars

\* a token tool-call part that carries a name and no input has been handled
\* while the current item was a tool item without a name, and the item
\* still has no name
C18_Witness ==
    \E k \in DOMAIN tasks :
        /\ tasks[k].pos = 2
        /\ IsToken(tasks[k].stream[1]) /\ Len(tasks[k].stream[1].content) = 1
        /\ IsToolUse(tasks[k].stream[1].content[1])
        /\ IsToken(LastEvent(k)) /\ Len(LastEvent(k).content) = 1
        /\ NoInput(LastEvent(k).content[1])
        /\ Get(LastEvent(k).content[1], "name") # None
        /\ Len(items) = 2
        /\ tasks[k].current_message # NoItem
        /\ items[tasks[k].current_message].sender = "tool"
        /\ items[tasks[k].current_message].tool_name = None

UserItems == SelectSeq(thread_items, LAMBDA i : items[i].sender = "user")

\* C19: the user items of the thread are exactly the items pushed by the
\* clicks, in the order of the clicks and with the submitted texts, and
\* there is no system item.
C19_UserItemsFromSubmit ==
    /\ Len(UserItems) = Len(tasks)
    /\ \A k \in DOMAIN tasks :
          /\ UserItems[k] = tasks[k].message
          /\ items[tasks[k].message].text = tasks[k].submitted
    /\ \A i \in DOMAIN items : items[i].sender # "system"

\* two clicks with different texts, with an item of the first stream
\* between the two user items and an item of a stream after the second
C19_Witness ==
    /\ Len(tasks) = 2
    /\ tasks[1].submitted # tasks[2].submitted
    /\ Len(thread_items) >= 4
    /\ \E n \in DOMAIN thread_items :
          /\ thread_items[n] = tasks[2].message
          /\ n > 2
          /\ n < Len(thread_items)
          /\ tasks[1].current_message = thread_items[Len(thread_items)]

====
